---- MODULE Spec2Model ----
(***************************************************************************)
(* Depth Grant Engine simulator (src/DGE.jsx): the React component App,   *)
(* its state hooks, its event handlers and the pure helpers they use.     *)
(*                                                                         *)
(* JavaScript numbers are IEEE-754 doubles.  The helpers that divide      *)
(* (calculateFundingCap, fundsReleased) are computed here with the        *)
(* roundings the engine performs: a double is a record [m, e] standing    *)
(* for m * 2^e, with m a natural number of at most 53 bits kept as a      *)
(* sequence of 16-bit limbs, least significant limb first.                *)
(***************************************************************************)
EXTENDS Integers, Sequences, FiniteSets, TLC

\* ------------------------------------------------------------------------
\* Program constants (src/DGE.jsx lines 7-17)
\* ------------------------------------------------------------------------
MIN_GRANT_CAP == 1000
MAX_GRANT_CAP == 10000
D_METRIC_SCALE == 250
MIN_D_METRIC_REQUIRED == 10
D_METRIC_BOOST == 20
D_METRIC_PENALTY == 10
MIN_GRANT_REQUESTED == 100

\* ------------------------------------------------------------------------
\* Natural numbers of any size: sequences of limbs in base 2^16, least
\* significant first, with no leading (high) zero limb; <<>> is zero.
\* ------------------------------------------------------------------------
Pow2(k) == 2 ^ k

Limb == Pow2(16)

NatBig(n) ==
  IF n = 0 THEN <<>>
  ELSE IF n < Limb THEN <<n>>
  ELSE <<n % Limb, n \div Limb>>

BigNat(a) ==
  IF Len(a) = 0 THEN 0
  ELSE IF Len(a) = 1 THEN a[1]
  ELSE a[1] + Limb * a[2]

Trim(a) ==
  LET nz == {i \in 1..Len(a) : a[i] # 0}
  IN IF nz = {} THEN <<>>
     ELSE SubSeq(a, 1, CHOOSE i \in nz : \A j \in nz : j <= i)

LimbAt(a, j) == IF j >= 1 /\ j <= Len(a) THEN a[j] ELSE 0

\* number of bits of a
BitLen(a) ==
  IF a = <<>> THEN 0
  ELSE LET top == a[Len(a)]
       IN 16 * (Len(a) - 1) + (CHOOSE k \in 1..16 : Pow2(k - 1) <= top /\ top < Pow2(k))

\* bit i of a, bit 1 the least significant
BitAt(a, i) == (LimbAt(a, ((i - 1) \div 16) + 1) \div Pow2((i - 1) % 16)) % 2

\* a * 2^k
ShiftLeft(a, k) ==
  IF a = <<>> THEN <<>>
  ELSE LET q == k \div 16
           r == k % 16
       IN Trim([j \in 1..(Len(a) + q + 1) |->
                  ((LimbAt(a, j - q) % Pow2(16 - r)) * Pow2(r))
                  + (LimbAt(a, j - q - 1) \div Pow2(16 - r))])

\* floor(a / 2^k)
ShiftRight(a, k) ==
  LET q == k \div 16
      r == k % 16
  IN IF Len(a) <= q THEN <<>>
     ELSE Trim([j \in 1..(Len(a) - q) |->
                  (LimbAt(a, j + q) \div Pow2(r))
                  + ((LimbAt(a, j + q + 1) % Pow2(r)) * Pow2(16 - r))])

RECURSIVE AddCarry(_, _, _, _)
AddCarry(a, b, j, c) ==
  IF j > Len(a) /\ j > Len(b) THEN (IF c = 0 THEN <<>> ELSE <<c>>)
  ELSE LET t == LimbAt(a, j) + LimbAt(b, j) + c
       IN <<t % Limb>> \o AddCarry(a, b, j + 1, t \div Limb)

BigAdd(a, b) == AddCarry(a, b, 1, 0)

RECURSIVE MulCarry(_, _, _, _)
MulCarry(a, k, j, c) ==
  IF j > Len(a) THEN (IF c = 0 THEN <<>> ELSE <<c>>)
  ELSE LET t == a[j] * k + c
       IN <<t % Limb>> \o MulCarry(a, k, j + 1, t \div Limb)

\* a * k for a natural k of at most 14 bits
BigMulSmall(a, k) == Trim(MulCarry(a, k, 1, 0))

\* a * k for a natural k below 2^28
BigMulNat(a, k) ==
  IF k < Pow2(14) THEN BigMulSmall(a, k)
  ELSE BigAdd(ShiftLeft(BigMulSmall(a, k \div Pow2(14)), 14),
              BigMulSmall(a, k % Pow2(14)))

RECURSIVE SubBorrow(_, _, _, _)
SubBorrow(a, b, j, c) ==
  IF j > Len(a) THEN <<>>
  ELSE LET t == a[j] - LimbAt(b, j) - c
       IN <<t % Limb>> \o SubBorrow(a, b, j + 1, IF t < 0 THEN 1 ELSE 0)

\* a - b for a >= b
BigSub(a, b) == Trim(SubBorrow(a, b, 1, 0))

\* -1, 0, 1 as a < b, a = b, a > b
BigCmp(a, b) ==
  IF Len(a) < Len(b) THEN -1
  ELSE IF Len(a) > Len(b) THEN 1
  ELSE LET differ == {i \in 1..Len(a) : a[i] # b[i]}
       IN IF differ = {} THEN 0
          ELSE LET top == CHOOSE i \in differ : \A j \in differ : j <= i
               IN IF a[top] < b[top] THEN -1 ELSE 1

\* Long division in base 2^16 of n * 2^64 by d, for naturals n < 2^16 and
\* 0 < d <= 2^10: [q |-> floor(n * 2^64 / d), r |-> the remainder].
RECURSIVE LongDiv(_, _, _, _)
LongDiv(r, d, left, q) ==
  IF left = 0 THEN [q |-> Trim(q), r |-> r]
  ELSE LET t == r * Limb
       IN LongDiv(t % d, d, left - 1, <<t \div d>> \o q)

ScaledDiv(n, d) == LongDiv(n % d, d, 4, <<n \div d>>)

\* ------------------------------------------------------------------------
\* IEEE-754 double arithmetic on non-negative values in the normal range:
\* round to nearest, ties to even; the significand has 53 bits.
\* ------------------------------------------------------------------------
FloatZero == [m |-> <<>>, e |-> 0]

\* The double nearest to (a + f) * 2^e, where a is a natural number and
\* sticky says whether the discarded fraction f (0 <= f < 1) is non-zero.
RoundToDouble(a, e, sticky) ==
  IF BitLen(a) <= 53 THEN [m |-> a, e |-> e]
  ELSE LET d    == BitLen(a) - 53
           kept == ShiftRight(a, d)
           g    == BitAt(a, d)
           st   == sticky \/ \E i \in 1..(d - 1) : BitAt(a, i) = 1
           up   == g = 1 /\ (st \/ BitAt(kept, 1) = 1)
           m1   == IF up THEN BigAdd(kept, <<1>>) ELSE kept
       IN IF BitLen(m1) > 53
            THEN [m |-> ShiftRight(m1, 1), e |-> e + d + 1]
            ELSE [m |-> m1, e |-> e + d]

FloatOfNat(n) == [m |-> NatBig(n), e |-> 0]

\* n / d for naturals n < 2^16 and 0 < d <= 2^10 (the quotient then has
\* more than 53 bits)
FloatDivNat(n, d) ==
  IF n = 0 THEN FloatZero
  ELSE LET qr == ScaledDiv(n, d)
       IN RoundToDouble(qr.q, 0 - 64, qr.r # 0)

\* k * x for a natural k below 2^28
FloatMulNat(k, x) ==
  IF k = 0 \/ x.m = <<>> THEN FloatZero
  ELSE RoundToDouble(BigMulNat(x.m, k), x.e, FALSE)

FloatAdd(x, y) ==
  IF x.m = <<>> THEN y
  ELSE IF y.m = <<>> THEN x
  ELSE LET emin == IF x.e < y.e THEN x.e ELSE y.e
       IN RoundToDouble(BigAdd(ShiftLeft(x.m, x.e - emin),
                               ShiftLeft(y.m, y.e - emin)), emin, FALSE)

\* -1, 0, 1 as x < y, x = y, x > y, for non-negative x and y
FloatCmp(x, y) ==
  IF x.m = <<>> THEN (IF y.m = <<>> THEN 0 ELSE -1)
  ELSE IF y.m = <<>> THEN 1
  ELSE LET emin == IF x.e < y.e THEN x.e ELSE y.e
       IN BigCmp(ShiftLeft(x.m, x.e - emin), ShiftLeft(y.m, y.e - emin))

\* x - y for x >= y >= 0
FloatSub(x, y) ==
  IF y.m = <<>> THEN x
  ELSE LET emin == IF x.e < y.e THEN x.e ELSE y.e
           diff == BigSub(ShiftLeft(x.m, x.e - emin), ShiftLeft(y.m, y.e - emin))
       IN IF diff = <<>> THEN FloatZero ELSE RoundToDouble(diff, emin, FALSE)

\* A negative double carries the field neg beside its magnitude.
FloatNeg(x) == IF x.m = <<>> THEN x ELSE [m |-> x.m, e |-> x.e, neg |-> TRUE]

FloatIsNeg(x) == "neg" \in DOMAIN x

\* Math.floor of a non-negative double below 2^31
FloatFloor(x) ==
  IF x.m = <<>> THEN 0
  ELSE IF x.e >= 0 THEN BigNat(ShiftLeft(x.m, x.e))
  ELSE BigNat(ShiftRight(x.m, 0 - x.e))

\* Math.ceil of a non-negative double below 2^31
FloatCeil(x) ==
  IF x.m = <<>> THEN 0
  ELSE IF x.e >= 0 THEN BigNat(ShiftLeft(x.m, x.e))
  ELSE LET whole == ShiftRight(x.m, 0 - x.e)
       IN IF ShiftLeft(whole, 0 - x.e) = x.m THEN BigNat(whole)
          ELSE BigNat(whole) + 1

\* ------------------------------------------------------------------------
\* calculateFundingCap (src/DGE.jsx lines 29-43)
\* ------------------------------------------------------------------------
calculateFundingCap(dMetricArg) ==
  IF dMetricArg < MIN_D_METRIC_REQUIRED THEN 0
  ELSE IF dMetricArg >= D_METRIC_SCALE THEN MAX_GRANT_CAP
  ELSE LET scaleRange == D_METRIC_SCALE - MIN_D_METRIC_REQUIRED
           capRange == MAX_GRANT_CAP - MIN_GRANT_CAP
           dMetricAdjusted == dMetricArg - MIN_D_METRIC_REQUIRED
       IN FloatFloor(FloatAdd(FloatOfNat(MIN_GRANT_CAP),
                              FloatMulNat(capRange,
                                          FloatDivNat(dMetricAdjusted, scaleRange))))

\* ------------------------------------------------------------------------
\* getBuilderBondAmount (src/DGE.jsx lines 15-16, 48-50)
\* ------------------------------------------------------------------------
BUILDER_BOND_USD == 300

\* 0.5
GOVERNANCE_TOKEN_PRICE == [m |-> <<1>>, e |-> 0 - 1]

\* the bond rounded down instead of up
getBuilderBondAmount_Floor(tokenPrice) ==
  IF tokenPrice.m = <<>> THEN [n |-> 0, finite |-> FALSE]
  ELSE LET q == FloatDivNat(BUILDER_BOND_USD, BigNat(tokenPrice.m))
       IN [n |-> FloatFloor([m |-> q.m, e |-> q.e - tokenPrice.e]), finite |-> TRUE]

\* Math.ceil(BUILDER_BOND_USD / tokenPrice) for a price whose significand is
\* at most 2^10: [n |-> the number, finite |-> TRUE], or finite |-> FALSE
\* for Infinity (division of a positive number by zero).
getBuilderBondAmount(tokenPrice) ==
  IF tokenPrice.m = <<>> THEN [n |-> 0, finite |-> FALSE]
  ELSE LET q == FloatDivNat(BUILDER_BOND_USD, BigNat(tokenPrice.m))
           quotient == [m |-> q.m, e |-> q.e - tokenPrice.e]
       IN IF FloatIsNeg(tokenPrice)
            THEN [n |-> 0 - FloatFloor(quotient), finite |-> TRUE]
            ELSE [n |-> FloatCeil(quotient), finite |-> TRUE]

\* ------------------------------------------------------------------------
\* Adaptive quorum (src/DGE.jsx lines 20-22, 72-75).  The decimal literals
\* are the doubles nearest to them:
\*   0.05       = 3602879701896397 * 2^-56
\*   0.00000001 = 3022314549036573 * 2^-78
\*   0.15       = 5404319552844595 * 2^-55
\* ------------------------------------------------------------------------
AQ_BASE_PERCENTAGE == [m |-> <<52429, 52428, 52428, 12>>, e |-> 0 - 56]
AQ_SENSITIVITY_MULTIPLIER == [m |-> <<17949, 28952, 48327, 10>>, e |-> 0 - 78]
AQ_QUORUM_CEILING == [m |-> <<13107, 13107, 13107, 19>>, e |-> 0 - 55]

\* Math.min on doubles, either of which may be negative
FloatMin(x, y) ==
  IF FloatIsNeg(x) THEN x
  ELSE IF FloatIsNeg(y) THEN y
  ELSE IF FloatCmp(x, y) <= 0 THEN x ELSE y

\* the quorum without its ceiling
adaptiveQuorumOf_NoCeiling(supply) ==
  FloatAdd(AQ_BASE_PERCENTAGE,
           FloatMulNat(IF supply < 0 THEN 0 - supply ELSE supply,
                       AQ_SENSITIVITY_MULTIPLIER))

\* The body of the adaptiveQuorum memo for a supply of magnitude below 2^28
adaptiveQuorumOf(supply) ==
  LET scaled == FloatMulNat(IF supply < 0 THEN 0 - supply ELSE supply,
                            AQ_SENSITIVITY_MULTIPLIER)
      calculatedQuorum ==
        IF supply >= 0 THEN FloatAdd(AQ_BASE_PERCENTAGE, scaled)
        ELSE IF FloatCmp(AQ_BASE_PERCENTAGE, scaled) >= 0
          THEN FloatSub(AQ_BASE_PERCENTAGE, scaled)
          ELSE FloatNeg(FloatSub(scaled, AQ_BASE_PERCENTAGE))
  IN FloatMin(calculatedQuorum, AQ_QUORUM_CEILING)

\* ------------------------------------------------------------------------
\* Values the inputs are drawn from
\* ------------------------------------------------------------------------
\* positions of the D-Metric slider (type="range", min 0, max D_METRIC_SCALE)
DMetricSlider == {0, 9, 10, 11, 20, 156, 240, 250}

\* positions of the supply slider (min 1000000, max 20000000, step 1000000)
DepthSupplySlider == {1000000, 10000000, 20000000}

\* integers parseInt can yield from the text of the grant field (NaN reads
\* as 0 through "|| 0")
TypedAmounts == {0, 99, 100, 109, 1000, 1037, 6474, 6475, 10000, 20000}

\* The onChange handler of the grant field (src/DGE.jsx line 351)
clampGrantRequested(typed) ==
  LET lower == IF typed > MIN_GRANT_REQUESTED THEN typed ELSE MIN_GRANT_REQUESTED
  IN IF lower < MAX_GRANT_CAP THEN lower ELSE MAX_GRANT_CAP

\* ------------------------------------------------------------------------
\* State of the component App (src/DGE.jsx lines 56-65)
\* ------------------------------------------------------------------------
VARIABLES
  dMetric,               \* useState(MIN_D_METRIC_REQUIRED)
  depthSupply,           \* useState(10000000)
  grantRequested,        \* useState(MIN_GRANT_CAP)
  isSubmitted,           \* proposal submitted, awaiting initial DAO vote
  isApproved,            \* initial DAO vote passed
  isSlashingVoteActive,  \* DAO voting on penalty
  milestoneProgress,     \* count of milestones funded
  message,               \* the message shown, or NoMessage
  lastEvent              \* history: content of the last showMessage call
                         \* since the inputs were last changed

vars == <<dMetric, depthSupply, grantRequested, isSubmitted, isApproved,
          isSlashingVoteActive, milestoneProgress, message, lastEvent>>

inputs == <<dMetric, depthSupply, grantRequested>>
flags == <<isSubmitted, isApproved, isSlashingVoteActive>>

NoMessage == [content |-> "null", type |-> "null"]

\* GRANT_MILESTONES (src/DGE.jsx lines 78-83): the percent of each phase
GRANT_MILESTONES == <<25, 30, 25, 20>>

\* ------------------------------------------------------------------------
\* Values derived on every render (src/DGE.jsx lines 68-103)
\* ------------------------------------------------------------------------
maxCap == calculateFundingCap(dMetric)

requiredBond == getBuilderBondAmount(GOVERNANCE_TOKEN_PRICE)

adaptiveQuorum == adaptiveQuorumOf(depthSupply)

\* the cap comparison written with >= in place of >
grantCapStatus_AtCapExceeds ==
  IF grantRequested >= maxCap THEN "Exceeds Cap" ELSE "Within Cap"

grantCapStatus == IF grantRequested > maxCap THEN "Exceeds Cap" ELSE "Within Cap"

isEligibleForSubmission ==
  /\ dMetric >= MIN_D_METRIC_REQUIRED
  /\ grantCapStatus = "Within Cap"
  /\ grantRequested >= MIN_GRANT_REQUESTED

\* The loop of fundsReleased: released += grantRequested * (percent / 100)
\* for the first progress milestones, in doubles.
RECURSIVE releasedThrough(_, _)
releasedThrough(requested, progress) ==
  IF progress = 0 THEN FloatZero
  ELSE FloatAdd(releasedThrough(requested, progress - 1),
                FloatMulNat(requested,
                            FloatDivNat(GRANT_MILESTONES[progress], 100)))

\* fundsReleased out of the values of one render
fundsReleasedOf(requested, approved, slashing, progress) ==
  IF ~approved /\ ~slashing THEN FloatZero
  ELSE releasedThrough(requested, progress)

fundsReleased ==
  fundsReleasedOf(grantRequested, isApproved, isSlashingVoteActive, milestoneProgress)

\* The messages whose text shows requiredBond (src/DGE.jsx lines 134, 165,
\* 227), and the bond the message on the page shows
BondMessages == {"Proposal Submitted", "DAO Vote Failed", "SLASHED"}

messageBond ==
  IF message.content \in BondMessages THEN requiredBond
  ELSE [n |-> 0, finite |-> TRUE]

\* The lifecycle state the flags stand for.  A proposal whose slashing vote
\* has been resolved carries the same flags as one awaiting its initial
\* vote; lastEvent tells them apart until the next event.
Status ==
  IF isSlashingVoteActive THEN "SlashingVote"
  ELSE IF isApproved
    THEN (IF milestoneProgress = Len(GRANT_MILESTONES) THEN "Completed" ELSE "Approved")
  ELSE IF isSubmitted
    THEN (IF lastEvent = "SLASHED" THEN "Slashed"
          ELSE IF lastEvent = "FORGIVEN" THEN "Forgiven"
          ELSE "Submitted")
  ELSE "Draft"

\* ------------------------------------------------------------------------
\* Handlers
\* ------------------------------------------------------------------------
\* showMessage (src/DGE.jsx lines 115-125); the timer it starts is
\* MessageTimeout below
showMessage(content, type) ==
  /\ message' = [content |-> content, type |-> type]
  /\ lastEvent' = content

\* the reset without setMilestoneProgress(0)
resetProgress_KeepCount ==
  /\ isSubmitted' = FALSE
  /\ isApproved' = FALSE
  /\ isSlashingVoteActive' = FALSE
  /\ milestoneProgress' = milestoneProgress
  /\ message' = NoMessage
  /\ lastEvent' = "null"

\* handleInputChange (src/DGE.jsx lines 106-113), after setter(value)
resetProgress ==
  /\ isSubmitted' = FALSE
  /\ isApproved' = FALSE
  /\ isSlashingVoteActive' = FALSE
  /\ milestoneProgress' = 0
  /\ message' = NoMessage
  /\ lastEvent' = "null"

\* the submission handler without its eligibility check
handleProposalSubmission_Unchecked ==
  /\ isSubmitted' = TRUE
  /\ showMessage("Proposal Submitted", "pending")
  /\ UNCHANGED <<inputs, isApproved, isSlashingVoteActive, milestoneProgress>>

handleProposalSubmission ==
  IF isEligibleForSubmission
    THEN /\ isSubmitted' = TRUE
         /\ showMessage("Proposal Submitted", "pending")
         /\ UNCHANGED <<inputs, isApproved, isSlashingVoteActive, milestoneProgress>>
    ELSE /\ showMessage("Submission Rejected", "error")
         /\ UNCHANGED <<inputs, flags, milestoneProgress>>

\* the vote handler approving without releasing the first tranche
simulateDaoVote_NoTranche(passed) ==
  IF isSubmitted /\ ~isApproved
    THEN IF passed
           THEN /\ isApproved' = TRUE
                /\ showMessage("DAO Vote Passed", "success")
                /\ UNCHANGED <<inputs, isSubmitted, isSlashingVoteActive,
                               milestoneProgress>>
           ELSE /\ isSubmitted' = FALSE
                /\ showMessage("DAO Vote Failed", "error")
                /\ UNCHANGED <<inputs, isApproved, isSlashingVoteActive,
                               milestoneProgress>>
    ELSE UNCHANGED vars

simulateDaoVote(passed) ==
  IF isSubmitted /\ ~isApproved
    THEN IF passed
           THEN /\ isApproved' = TRUE
                /\ milestoneProgress' = 1
                /\ showMessage("DAO Vote Passed", "success")
                /\ UNCHANGED <<inputs, isSubmitted, isSlashingVoteActive>>
           ELSE /\ isSubmitted' = FALSE
                /\ showMessage("DAO Vote Failed", "error")
                /\ UNCHANGED <<inputs, isApproved, isSlashingVoteActive,
                               milestoneProgress>>
    ELSE UNCHANGED vars

\* the milestone handler boosting without the ceiling D_METRIC_SCALE
handleMilestoneSuccess_NoCeiling ==
  IF isApproved /\ milestoneProgress < Len(GRANT_MILESTONES)
    THEN LET isFinalMilestone == (milestoneProgress + 1) = Len(GRANT_MILESTONES)
         IN /\ milestoneProgress' = milestoneProgress + 1
            /\ IF isFinalMilestone
                 THEN /\ dMetric' = dMetric + D_METRIC_BOOST
                      /\ showMessage("Project Complete", "success")
                 ELSE /\ dMetric' = dMetric
                      /\ showMessage("Tranche released", "milestone")
            /\ UNCHANGED <<depthSupply, grantRequested, flags>>
    ELSE UNCHANGED vars

\* the milestone handler boosting on every milestone, not only the final one
handleMilestoneSuccess_BoostEach ==
  IF isApproved /\ milestoneProgress < Len(GRANT_MILESTONES)
    THEN LET boosted == dMetric + D_METRIC_BOOST
             newDMetric == IF boosted < D_METRIC_SCALE THEN boosted ELSE D_METRIC_SCALE
         IN /\ milestoneProgress' = milestoneProgress + 1
            /\ dMetric' = newDMetric
            /\ IF (milestoneProgress + 1) = Len(GRANT_MILESTONES)
                 THEN showMessage("Project Complete", "success")
                 ELSE showMessage("Tranche released", "milestone")
            /\ UNCHANGED <<depthSupply, grantRequested, flags>>
    ELSE UNCHANGED vars

handleMilestoneSuccess ==
  IF isApproved /\ milestoneProgress < Len(GRANT_MILESTONES)
    THEN LET isFinalMilestone == (milestoneProgress + 1) = Len(GRANT_MILESTONES)
             boosted == dMetric + D_METRIC_BOOST
             newDMetric == IF boosted < D_METRIC_SCALE THEN boosted ELSE D_METRIC_SCALE
         IN /\ milestoneProgress' = milestoneProgress + 1
            /\ IF isFinalMilestone
                 THEN /\ dMetric' = newDMetric
                      /\ showMessage("Project Complete", "success")
                 ELSE /\ dMetric' = dMetric
                      /\ showMessage("Tranche released", "milestone")
            /\ UNCHANGED <<depthSupply, grantRequested, flags>>
    ELSE UNCHANGED vars

\* the default handler without the check for milestones left
handleFounderDefault_AnyProgress ==
  IF isApproved /\ ~isSlashingVoteActive
    THEN /\ isSlashingVoteActive' = TRUE
         /\ showMessage("FOUNDER DEFAULTED", "error")
         /\ UNCHANGED <<inputs, isSubmitted, isApproved, milestoneProgress>>
    ELSE UNCHANGED vars

handleFounderDefault ==
  IF isApproved /\ ~isSlashingVoteActive /\ milestoneProgress < Len(GRANT_MILESTONES)
    THEN /\ isSlashingVoteActive' = TRUE
         /\ showMessage("FOUNDER DEFAULTED", "error")
         /\ UNCHANGED <<inputs, isSubmitted, isApproved, milestoneProgress>>
    ELSE UNCHANGED vars

\* the slashing handler without the floor MIN_D_METRIC_REQUIRED
simulateSlashingVote_NoFloor(slash) ==
  /\ isSlashingVoteActive' = FALSE
  /\ isApproved' = FALSE
  /\ IF slash
       THEN /\ dMetric' = dMetric - D_METRIC_PENALTY
            /\ showMessage("SLASHED", "error")
       ELSE /\ dMetric' = dMetric
            /\ showMessage("FORGIVEN", "success")
  /\ milestoneProgress' = milestoneProgress
  /\ UNCHANGED <<depthSupply, grantRequested, isSubmitted>>

\* the slashing handler applying the penalty before it looks at the outcome
simulateSlashingVote_PenaltyFirst(slash) ==
  LET reduced == dMetric - D_METRIC_PENALTY
      newDMetric == IF reduced > MIN_D_METRIC_REQUIRED
                      THEN reduced ELSE MIN_D_METRIC_REQUIRED
  IN /\ isSlashingVoteActive' = FALSE
     /\ isApproved' = FALSE
     /\ dMetric' = newDMetric
     /\ IF slash THEN showMessage("SLASHED", "error")
                 ELSE showMessage("FORGIVEN", "success")
     /\ milestoneProgress' = milestoneProgress
     /\ UNCHANGED <<depthSupply, grantRequested, isSubmitted>>

simulateSlashingVote(slash) ==
  /\ isSlashingVoteActive' = FALSE
  /\ isApproved' = FALSE
  /\ IF slash
       THEN LET reduced == dMetric - D_METRIC_PENALTY
                newDMetric == IF reduced > MIN_D_METRIC_REQUIRED
                                THEN reduced ELSE MIN_D_METRIC_REQUIRED
            IN /\ dMetric' = newDMetric
               /\ showMessage("SLASHED", "error")
       ELSE /\ dMetric' = dMetric
            /\ showMessage("FORGIVEN", "success")
  /\ milestoneProgress' = milestoneProgress
  /\ UNCHANGED <<depthSupply, grantRequested, isSubmitted>>

\* ------------------------------------------------------------------------
\* Events of the rendered page (src/DGE.jsx lines 309-516): a handler runs
\* when its control is on the page and enabled
\* ------------------------------------------------------------------------
ChangeDMetric ==
  \E value \in DMetricSlider :
    /\ value # dMetric
    /\ dMetric' = value
    /\ UNCHANGED <<depthSupply, grantRequested>>
    /\ resetProgress

ChangeDepthSupply ==
  \E value \in DepthSupplySlider :
    /\ value # depthSupply
    /\ depthSupply' = value
    /\ UNCHANGED <<dMetric, grantRequested>>
    /\ resetProgress

ChangeGrantRequested ==
  \E typed \in TypedAmounts :
    /\ grantRequested' = clampGrantRequested(typed)
    /\ UNCHANGED <<dMetric, depthSupply>>
    /\ resetProgress

ClickSubmit ==
  /\ ~isSubmitted
  /\ isEligibleForSubmission      \* disabled={!isEligibleForSubmission}
  /\ handleProposalSubmission

ClickVotePassed ==
  /\ isSubmitted /\ ~isApproved
  /\ simulateDaoVote(TRUE)

ClickVoteFailed ==
  /\ isSubmitted /\ ~isApproved
  /\ simulateDaoVote(FALSE)

\* the milestone panel shown whenever the grant is approved
milestoneControlsShown_WhileVoting ==
  /\ isApproved
  /\ \E index \in 0..(Len(GRANT_MILESTONES) - 1) :
       index + 1 = milestoneProgress /\ index + 1 <= Len(GRANT_MILESTONES)

milestoneControlsShown ==
  /\ isApproved /\ ~isSlashingVoteActive
  /\ \E index \in 0..(Len(GRANT_MILESTONES) - 1) :
       index + 1 = milestoneProgress /\ index + 1 <= Len(GRANT_MILESTONES)

ClickMilestoneSuccess ==
  /\ milestoneControlsShown
  /\ handleMilestoneSuccess

ClickFounderDefault ==
  /\ milestoneControlsShown
  /\ handleFounderDefault

ClickSlash ==
  /\ isSlashingVoteActive
  /\ simulateSlashingVote(TRUE)

ClickForgive ==
  /\ isSlashingVoteActive
  /\ simulateSlashingVote(FALSE)

\* setTimeout(() => setMessage(null), 5000) (src/DGE.jsx line 124)
MessageTimeout ==
  /\ message # NoMessage
  /\ message' = NoMessage
  /\ UNCHANGED <<inputs, flags, milestoneProgress, lastEvent>>

Init ==
  /\ dMetric = MIN_D_METRIC_REQUIRED
  /\ depthSupply = 10000000
  /\ grantRequested = MIN_GRANT_CAP
  /\ isSubmitted = FALSE
  /\ isApproved = FALSE
  /\ isSlashingVoteActive = FALSE
  /\ milestoneProgress = 0
  /\ message = NoMessage
  /\ lastEvent = "null"

Next ==
  \/ ChangeDMetric
  \/ ChangeDepthSupply
  \/ ChangeGrantRequested
  \/ ClickSubmit
  \/ ClickVotePassed
  \/ ClickVoteFailed
  \/ ClickMilestoneSuccess
  \/ ClickFounderDefault
  \/ ClickSlash
  \/ ClickForgive
  \/ MessageTimeout

Spec == Init /\ [][Next]_vars

\* ------------------------------------------------------------------------
\* The eligibility check and the submission handler on their own: the
\* inputs range over values inside and outside what the page lets through,
\* and handleProposalSubmission is called on the draft.
\* ------------------------------------------------------------------------
\* token prices: -0.5, 0, 0.5, 0.75, 7, 8.75
PriceDomain ==
  { FloatNeg(GOVERNANCE_TOKEN_PRICE), FloatZero, GOVERNANCE_TOKEN_PRICE,
    [m |-> <<3>>, e |-> 0 - 2], [m |-> <<7>>, e |-> 0], [m |-> <<35>>, e |-> 0 - 2] }

\* supplies inside and outside the slider's range
SupplyDomain == {-6000000, -1, 0, 1, 1000000, 9999999, 10000000, 10000001, 20000000}

ReputationDomain == {-1000, -1, 0, 5, 9, 10, 11, 155, 156, 157, 249, 250, 251, 100000}
AmountDomain == {0, 50, 99, 100, 101, 109, 1000, 1001, 1037, 1038, 6474, 6475, 10000, 10001}

InitEval ==
  /\ dMetric \in ReputationDomain
  /\ depthSupply \in SupplyDomain
  /\ grantRequested \in AmountDomain
  /\ isSubmitted = FALSE
  /\ isApproved = FALSE
  /\ isSlashingVoteActive = FALSE
  /\ milestoneProgress = 0
  /\ message = NoMessage
  /\ lastEvent = "null"

CallSubmit == handleProposalSubmission

NextEval == CallSubmit

SpecEval == InitEval /\ [][NextEval]_vars

\* ------------------------------------------------------------------------
\* The handlers called in any state, whether or not the page shows their
\* control: each handler decides by its own conditions what the call does.
\* ------------------------------------------------------------------------
CallDaoVote == \E passed \in BOOLEAN : simulateDaoVote(passed)

CallMilestoneSuccess == handleMilestoneSuccess

CallFounderDefault == handleFounderDefault

CallSlashingVote == \E slash \in BOOLEAN : simulateSlashingVote(slash)

NextDirect ==
  \/ ChangeDMetric
  \/ ChangeGrantRequested
  \/ CallSubmit
  \/ CallDaoVote
  \/ CallMilestoneSuccess
  \/ CallFounderDefault
  \/ CallSlashingVote

SpecDirect == Init /\ [][NextDirect]_vars

\* ------------------------------------------------------------------------
\* Calls made within one render.  A handler is a closure over the values of
\* the render that created it: its conditions and the values it passes to
\* the setters come from that render, and the setter calls are queued and
\* applied in order when the component renders again.  Of all setter calls
\* only setMilestoneProgress(prev => prev + 1) reads the queued value.
\* ------------------------------------------------------------------------
render ==
  [dMetric |-> dMetric, grantRequested |-> grantRequested,
   isSubmitted |-> isSubmitted, isApproved |-> isApproved,
   isSlashingVoteActive |-> isSlashingVoteActive,
   milestoneProgress |-> milestoneProgress, message |-> message]

HandlerCalls ==
  {"submit", "votePassed", "voteFailed", "milestoneSuccess", "founderDefault",
   "slash", "forgive"}

\* setter(value)
SetState(field, value) == [field |-> field, value |-> value, functional |-> FALSE]

\* setMilestoneProgress(prev => prev + 1)
IncrementProgress == [field |-> "milestoneProgress", value |-> 1, functional |-> TRUE]

ShowMessage(content, type) == SetState("message", [content |-> content, type |-> type])

\* isEligibleForSubmission as the render r computed it
eligibleIn(r) ==
  /\ r.dMetric >= MIN_D_METRIC_REQUIRED
  /\ ~(r.grantRequested > calculateFundingCap(r.dMetric))
  /\ r.grantRequested >= MIN_GRANT_REQUESTED

\* The setter calls the handler created by render r makes, in order
setterCalls(call, r) ==
  CASE call = "submit" ->
         IF eligibleIn(r)
           THEN <<SetState("isSubmitted", TRUE), ShowMessage("Proposal Submitted", "pending")>>
           ELSE <<ShowMessage("Submission Rejected", "error")>>
    [] call = "votePassed" ->
         IF r.isSubmitted /\ ~r.isApproved
           THEN <<SetState("isApproved", TRUE), SetState("milestoneProgress", 1),
                  ShowMessage("DAO Vote Passed", "success")>>
           ELSE <<>>
    [] call = "voteFailed" ->
         IF r.isSubmitted /\ ~r.isApproved
           THEN <<SetState("isSubmitted", FALSE), ShowMessage("DAO Vote Failed", "error")>>
           ELSE <<>>
    [] call = "milestoneSuccess" ->
         IF r.isApproved /\ r.milestoneProgress < Len(GRANT_MILESTONES)
           THEN IF (r.milestoneProgress + 1) = Len(GRANT_MILESTONES)
                  THEN <<IncrementProgress,
                         SetState("dMetric",
                                  IF r.dMetric + D_METRIC_BOOST < D_METRIC_SCALE
                                    THEN r.dMetric + D_METRIC_BOOST ELSE D_METRIC_SCALE),
                         ShowMessage("Project Complete", "success")>>
                  ELSE <<IncrementProgress, ShowMessage("Tranche released", "milestone")>>
           ELSE <<>>
    [] call = "founderDefault" ->
         IF r.isApproved /\ ~r.isSlashingVoteActive
            /\ r.milestoneProgress < Len(GRANT_MILESTONES)
           THEN <<SetState("isSlashingVoteActive", TRUE),
                  ShowMessage("FOUNDER DEFAULTED", "error")>>
           ELSE <<>>
    [] call = "slash" ->
         <<SetState("isSlashingVoteActive", FALSE), SetState("isApproved", FALSE),
           SetState("dMetric",
                    IF r.dMetric - D_METRIC_PENALTY > MIN_D_METRIC_REQUIRED
                      THEN r.dMetric - D_METRIC_PENALTY ELSE MIN_D_METRIC_REQUIRED),
           ShowMessage("SLASHED", "error"),
           SetState("milestoneProgress", r.milestoneProgress)>>
    [] call = "forgive" ->
         <<SetState("isSlashingVoteActive", FALSE), SetState("isApproved", FALSE),
           ShowMessage("FORGIVEN", "success"),
           SetState("milestoneProgress", r.milestoneProgress)>>

\* The next render's values: the queued calls applied in order to r
RECURSIVE commit(_, _)
commit(r, queue) ==
  IF queue = <<>> THEN r
  ELSE LET u == Head(queue)
           applied == IF u.functional
                        THEN [r EXCEPT !.milestoneProgress = @ + u.value]
                        ELSE [r EXCEPT ![u.field] = u.value]
       IN commit(applied, Tail(queue))

\* two handlers of the same render called one after the other before the
\* component renders again
CallPairInOneRender(first, second) ==
  \E queue \in {setterCalls(first, render) \o setterCalls(second, render)} :
    \E next \in {commit(render, queue)} :
      /\ queue # <<>>
      /\ dMetric' = next.dMetric
      /\ isSubmitted' = next.isSubmitted
      /\ isApproved' = next.isApproved
      /\ isSlashingVoteActive' = next.isSlashingVoteActive
      /\ milestoneProgress' = next.milestoneProgress
      /\ message' = next.message
      /\ lastEvent' = IF next.message = message THEN lastEvent ELSE next.message.content
      /\ UNCHANGED <<depthSupply, grantRequested>>

CallPair == \E first \in HandlerCalls, second \in HandlerCalls :
              CallPairInOneRender(first, second)

NextBatch ==
  \/ ChangeDMetric
  \/ CallPair

SpecBatch == Init /\ [][NextBatch]_vars

\* ------------------------------------------------------------------------
\* Properties
\* ------------------------------------------------------------------------
Min(a, b) == IF a < b THEN a ELSE b
Max(a, b) == IF a > b THEN a ELSE b

MilestoneCount == Len(GRANT_MILESTONES)

RECURSIVE SumPercent(_)
SumPercent(k) == IF k = 0 THEN 0 ELSE SumPercent(k - 1) + GRANT_MILESTONES[k]

\* x compared with the rational n / d (n < 2^31, 0 < d < 2^28):
\* -1, 0, 1 as x < n/d, x = n/d, x > n/d
FloatCmpRatio(x, n, d) ==
  LET lhs == BigMulNat(ShiftLeft(x.m, IF x.e > 0 THEN x.e ELSE 0), d)
      rhs == ShiftLeft(NatBig(n), IF x.e < 0 THEN 0 - x.e ELSE 0)
  IN BigCmp(lhs, rhs)

\* fundsReleased as the render after the step computes it
fundsReleasedAfter ==
  fundsReleasedOf(grantRequested', isApproved', isSlashingVoteActive', milestoneProgress')

\* fundsReleased equals cents / 100 exactly
ReleasedIsCents(released, cents) == FloatCmpRatio(released, cents, 100) = 0

\* The three rules of the eligibility check, as the set of violated ones
ViolatedReasons(reputation, requested, cap) ==
  (IF reputation < 10 THEN {"BelowReputationFloor"} ELSE {})
  \cup (IF requested < 100 THEN {"BelowMinimumRequest"} ELSE {})
  \cup (IF requested > cap THEN {"ExceedsCap"} ELSE {})

\* C1: submit() on a draft moves it to Submitted exactly when reputation >= 10,
\* requested >= 100 and requested <= cap(reputation); otherwise it reports
\* the rejection as an error and leaves status, milestone count, reputation
\* and requested amount as they were.
C1_SubmitGate ==
  [][ (Status = "Draft" /\ handleProposalSubmission) =>
        /\ milestoneProgress' = milestoneProgress
        /\ dMetric' = dMetric
        /\ grantRequested' = grantRequested
        /\ IF /\ dMetric >= 10
              /\ grantRequested >= 100
              /\ grantRequested <= calculateFundingCap(dMetric)
             THEN Status' = "Submitted"
             ELSE /\ Status' = "Draft"
                  /\ message' = [content |-> "Submission Rejected", type |-> "error"]
    ]_vars

C1_Witness ==
  /\ Status = "Draft"
  /\ lastEvent = "Submission Rejected"
  /\ message.type = "error"
  /\ dMetric >= 10
  /\ grantRequested > maxCap

\* C2: the eligibility check passes iff none of the three rules
\* (reputation < 10, requested < 100, requested > cap) is violated; a request
\* equal to the cap at reputation 10 is eligible.
C2_EligibleIffNoReasons ==
  /\ isEligibleForSubmission <=> (ViolatedReasons(dMetric, grantRequested, maxCap) = {})
  /\ (lastEvent = "Proposal Submitted") =>
       (ViolatedReasons(dMetric, grantRequested, maxCap) = {})
  /\ (lastEvent = "Submission Rejected") =>
       (ViolatedReasons(dMetric, grantRequested, maxCap) # {})

C2_Witness ==
  /\ dMetric = 10
  /\ grantRequested = maxCap
  /\ isSubmitted
  /\ lastEvent = "Proposal Submitted"

\* C3: a passed initial vote on a Submitted proposal approves it, sets the
\* milestone count to exactly 1 and releases the first milestone's percentage
\* of the requested amount; reputation and requested amount are unchanged.
C3_VotePassedReleasesFirst ==
  [][ (Status = "Submitted" /\ simulateDaoVote(TRUE)) =>
        /\ Status' = "Approved"
        /\ milestoneProgress' = 1
        /\ ReleasedIsCents(fundsReleasedAfter, grantRequested * GRANT_MILESTONES[1])
        /\ dMetric' = dMetric
        /\ grantRequested' = grantRequested
    ]_vars

C3_Witness ==
  /\ Status = "Approved"
  /\ lastEvent = "DAO Vote Passed"
  /\ grantRequested = 1000
  /\ milestoneProgress = 1
  /\ FloatCmpRatio(fundsReleased, 250, 1) = 0

\* C4: a failed initial vote on a Submitted proposal returns it to Draft with
\* milestone count 0, nothing released and reputation unchanged, and the
\* draft can be submitted again.
C4_VoteFailedReturnsToDraft ==
  [][ (Status = "Submitted" /\ simulateDaoVote(FALSE)) =>
        /\ Status' = "Draft"
        /\ milestoneProgress' = 0
        /\ fundsReleasedAfter = FloatZero
        /\ dMetric' = dMetric
        /\ grantRequested' = grantRequested
        /\ ~isSubmitted' /\ isEligibleForSubmission
    ]_vars

\* C5: a milestone success on an Approved proposal adds exactly 1 to the
\* milestone count; reaching the last milestone sets reputation to
\* min(250, reputation + 20) and completes the proposal, otherwise
\* reputation is unchanged and the proposal stays Approved.
C5_MilestoneSuccess ==
  [][ (Status = "Approved" /\ handleMilestoneSuccess) =>
        /\ milestoneProgress' = milestoneProgress + 1
        /\ IF milestoneProgress' = MilestoneCount
             THEN dMetric' = Min(250, dMetric + 20) /\ Status' = "Completed"
             ELSE dMetric' = dMetric /\ Status' = "Approved"
    ]_vars

C5_Witness ==
  /\ Status = "Completed"
  /\ lastEvent = "Project Complete"
  /\ dMetric = 250

\* C6: a proposal enters SlashingVote only by a milestone default on an
\* Approved proposal with milestones left and no slashing vote active, and
\* the default leaves milestone count, released amount and reputation
\* unchanged.
C6_DefaultOpensSlashingVote ==
  [][ /\ (Status' = "SlashingVote" /\ Status # "SlashingVote") =>
           /\ Status = "Approved"
           /\ milestoneProgress < MilestoneCount
           /\ ~isSlashingVoteActive
           /\ handleFounderDefault
      /\ handleFounderDefault =>
           /\ Status' = (IF Status = "Approved" THEN "SlashingVote" ELSE Status)
           /\ milestoneProgress' = milestoneProgress
           /\ fundsReleasedAfter = fundsReleased
           /\ dMetric' = dMetric
    ]_vars

C6_Witness ==
  /\ Status = "SlashingVote"
  /\ lastEvent = "FOUNDER DEFAULTED"
  /\ milestoneProgress = 2

\* C7: a slashing vote resolved with slash moves the proposal to Slashed and
\* sets reputation to max(10, reputation - 10), never above what it was.
C7_SlashPenalty ==
  [][ (Status = "SlashingVote" /\ simulateSlashingVote(TRUE)) =>
        /\ Status' = "Slashed"
        /\ dMetric' = Max(10, dMetric - 10)
        /\ dMetric' <= dMetric
    ]_vars

C7_Witness ==
  /\ Status = "Slashed"
  /\ dMetric = 10
  /\ message.content = "SLASHED"

\* C8: a slashing vote resolved without slash moves the proposal to Forgiven
\* and leaves reputation and milestone count as they were.
C8_ForgiveKeepsReputation ==
  [][ (Status = "SlashingVote" /\ simulateSlashingVote(FALSE)) =>
        /\ Status' = "Forgiven"
        /\ dMetric' = dMetric
        /\ milestoneProgress' = milestoneProgress
    ]_vars

C8_Witness ==
  /\ Status = "Forgiven"
  /\ milestoneProgress = 2
  /\ dMetric = 156

\* C9: resolving a slashing vote with k milestones completed keeps the
\* milestone count at k and the reported released amount at the k-milestone
\* total (requested times the sum of the first k percentages).
C9_ReleasedKeptOnTermination ==
  [][ (Status = "SlashingVote" /\ Status' \in {"Slashed", "Forgiven"}) =>
        /\ milestoneProgress' = milestoneProgress
        /\ ReleasedIsCents(fundsReleasedAfter, grantRequested * SumPercent(milestoneProgress))
    ]_vars

\* a lifecycle request issued from the page (no input change)
LifecycleStep ==
  \/ ClickSubmit
  \/ ClickVotePassed
  \/ ClickVoteFailed
  \/ ClickMilestoneSuccess
  \/ ClickFounderDefault
  \/ ClickSlash
  \/ ClickForgive

\* C10: Completed, Slashed and Forgiven are terminal: no lifecycle action
\* changes the status, the milestone count or the reputation of a proposal
\* that has reached one of them.
C10_TerminalStatesFinal ==
  [][ (Status \in {"Completed", "Slashed", "Forgiven"} /\ LifecycleStep) =>
        /\ Status' = Status
        /\ isApproved' = isApproved
        /\ milestoneProgress' = milestoneProgress
        /\ dMetric' = dMetric
    ]_vars

\* the call was refused: an error is shown and nothing else has changed
CallRefused ==
  /\ message'.type = "error"
  /\ UNCHANGED <<inputs, flags, milestoneProgress>>

\* C11: a lifecycle call that is not a legal transition from the current
\* state (submit outside Draft, the initial vote outside Submitted, milestone
\* success or default outside Approved, the slashing vote outside
\* SlashingVote) reports an error and leaves every state variable unchanged.
C11_IllegalCallsRefused ==
  [][ /\ (Status # "Draft" /\ handleProposalSubmission) => CallRefused
      /\ (Status # "Submitted" /\ CallDaoVote) => CallRefused
      /\ (Status # "Approved" /\ handleMilestoneSuccess) => CallRefused
      /\ (Status # "Approved" /\ handleFounderDefault) => CallRefused
      /\ (Status # "SlashingVote" /\ CallSlashingVote) => CallRefused
    ]_vars

\* C12: among lifecycle transitions only the final-milestone success and the
\* slashing-vote resolution change the reputation; submit, the initial vote,
\* a non-final milestone success and a default leave it unchanged; and from
\* a successful submit on the reputation lies in [10, 250].
C12_ReputationFrame ==
  [][ /\ isSubmitted' => (dMetric' >= 10 /\ dMetric' <= 250)
      /\ (dMetric' # dMetric /\ LifecycleStep) =>
            /\ \/ (handleMilestoneSuccess /\ milestoneProgress' = MilestoneCount)
               \/ CallSlashingVote
            /\ ~(ClickSubmit \/ ClickVotePassed \/ ClickVoteFailed \/ ClickFounderDefault)
            /\ ~(ClickMilestoneSuccess /\ milestoneProgress' < MilestoneCount)
    ]_vars

C12_Witness ==
  /\ Status = "Slashed"
  /\ dMetric = 146
  /\ milestoneProgress = 3

\* C13: along the lifecycle transitions of one proposal the released amount
\* never decreases from one state to the next, up to and including the step
\* that takes the proposal to a terminal state.
C13_ReleasedNeverDecreases ==
  [][ (LifecycleStep /\ Status \notin {"Completed", "Slashed", "Forgiven"}) =>
        FloatCmp(fundsReleasedAfter, fundsReleased) >= 0
    ]_vars

\* the double nearest to requested * percent / 100
ShareOf(requested, percent) == FloatDivNat(requested * percent, 100)

\* C14: the milestone percentages sum to 100; the released amount always
\* equals the requested amount times the sum of the first completed
\* percentages; and with all milestones completed the released amount equals
\* the requested amount, so that nothing remains.
C14_ReleasedEqualsShare ==
  /\ SumPercent(MilestoneCount) = 100
  /\ FloatCmp(fundsReleased, ShareOf(grantRequested, SumPercent(milestoneProgress))) = 0
  /\ (milestoneProgress = MilestoneCount) =>
       FloatCmp(fundsReleased, FloatOfNat(grantRequested)) = 0

\* floor(1000 + 9000 * (reputation - 10) / 240) between the two boundaries
CapFormula(reputation) ==
  IF reputation < 10 THEN 0
  ELSE IF reputation >= 250 THEN 10000
  ELSE (1000 * 240 + 9000 * (reputation - 10)) \div 240

\* C16: for every integer reputation the cap is 0 below 10, 10000 from 250
\* on and floor(1000 + 9000 * (reputation - 10) / 240) in between; so
\* cap(10) = 1000, cap(250) = 10000 and the cap never decreases as the
\* reputation grows.
C16_CapFormula ==
  /\ maxCap = CapFormula(dMetric)
  /\ calculateFundingCap(10) = 1000
  /\ calculateFundingCap(250) = 10000
  /\ \A reputation \in ReputationDomain :
       (reputation <= dMetric) => (calculateFundingCap(reputation) <= maxCap)

\* min(0.15, 0.05 + supply / 10^8) in units of 10^-8
QuorumFormula(supply) == Min(15000000, 5000000 + supply)

\* C17: for a supply that is not negative the quorum is
\* min(0.15, 0.05 + supply * 1e-8) (to within half of what one token adds),
\* it does not decrease as the supply grows, it lies in [0.05, 0.15], and it
\* is 0.15 for every supply from 10,000,000 on.
C17_QuorumFormula ==
  (depthSupply >= 0) =>
    /\ FloatCmpRatio(adaptiveQuorum, 2 * QuorumFormula(depthSupply) - 1, 200000000) > 0
    /\ FloatCmpRatio(adaptiveQuorum, 2 * QuorumFormula(depthSupply) + 1, 200000000) < 0
    /\ \A supply \in SupplyDomain :
         (supply >= 0 /\ supply <= depthSupply) =>
           FloatCmp(adaptiveQuorumOf(supply), adaptiveQuorum) <= 0
    /\ FloatCmp(adaptiveQuorum, AQ_BASE_PERCENTAGE) >= 0
    /\ FloatCmp(adaptiveQuorum, AQ_QUORUM_CEILING) <= 0
    /\ (depthSupply >= 10000000) => FloatCmp(adaptiveQuorum, AQ_QUORUM_CEILING) = 0

C17_Witness ==
  /\ depthSupply = 10000001
  /\ adaptiveQuorum = AQ_QUORUM_CEILING
  /\ lastEvent = "Proposal Submitted"

\* n = ceil(300 / price) for a positive price m * 2^e with e <= 0
IsBondFor(n, price) ==
  /\ n * BigNat(price.m) >= 300 * Pow2(0 - price.e)
  /\ (n - 1) * BigNat(price.m) < 300 * Pow2(0 - price.e)

\* C18: the bond is ceil(300 / price), 600 at the price 0.5 in force at
\* submission, and every bond amount shown for the proposal afterwards (staked
\* at submission, forfeited on a failed vote or on slashing) is that amount.
C18_BondFixed ==
  /\ \A price \in PriceDomain :
       (~FloatIsNeg(price) /\ price.m # <<>>) =>
         /\ getBuilderBondAmount(price).finite
         /\ IsBondFor(getBuilderBondAmount(price).n, price)
  /\ requiredBond = [n |-> 600, finite |-> TRUE]
  /\ (message.content \in BondMessages) => (messageBond = [n |-> 600, finite |-> TRUE])

C18_Witness ==
  /\ Status = "Slashed"
  /\ message.content = "SLASHED"
  /\ messageBond.n = 600

\* the call returned an error in place of a value
IsError(result) == "error" \in DOMAIN result

\* C19: the bond of a token price that is zero or negative, and the quorum
\* of a negative supply, are refused with an error (InvalidPrice,
\* InvalidSupply): no infinite, negative or other value is returned.
C19_InvalidInputsRejected ==
  /\ \A price \in PriceDomain :
       (FloatIsNeg(price) \/ price.m = <<>>) => IsError(getBuilderBondAmount(price))
  /\ (depthSupply < 0) => IsError(adaptiveQuorum)

\* C20: the quorum shown is 51% + (100 - D-Metric) / 2: 51% at D-Metric 100,
\* 71% at D-Metric 60.
C20_QuorumFromDMetric ==
  /\ dMetric <= 202
  /\ FloatCmpRatio(FloatMulNat(100, adaptiveQuorum), 202 - dMetric, 2) = 0

\* the second call made by the handler of the render that follows the first
sequentially(first, second) ==
  LET between == commit(render, setterCalls(first, render))
  IN commit(between, setterCalls(second, between))

\* C21: two requests issued back to back, before the state is read again,
\* end in the state that running them one after the other ends in, and never
\* take the milestone count above N.
C21_BackToBackIsSequential ==
  [][ \A first \in HandlerCalls, second \in HandlerCalls :
        CallPairInOneRender(first, second) =>
          \E after \in {sequentially(first, second)} :
            /\ milestoneProgress' <= MilestoneCount
            /\ dMetric' = after.dMetric
            /\ isSubmitted' = after.isSubmitted
            /\ isApproved' = after.isApproved
            /\ isSlashingVoteActive' = after.isSlashingVoteActive
            /\ milestoneProgress' = after.milestoneProgress
    ]_vars

C23_InputChangeResets ==
  [][ /\ (ChangeDMetric \/ ChangeDepthSupply \/ ChangeGrantRequested) =>
            /\ ~isSubmitted' /\ ~isApproved' /\ ~isSlashingVoteActive'
            /\ milestoneProgress' = 0
            /\ fundsReleasedAfter = FloatZero
      /\ ChangeDMetric => (depthSupply' = depthSupply /\ grantRequested' = grantRequested)
      /\ ChangeDepthSupply => (dMetric' = dMetric /\ grantRequested' = grantRequested)
      /\ ChangeGrantRequested => (dMetric' = dMetric /\ depthSupply' = depthSupply)
    ]_vars

C23_Witness ==
  /\ Status = "Draft"
  /\ lastEvent = "null"
  /\ dMetric = 146
  /\ depthSupply = 20000000
  /\ milestoneProgress = 0

\* C24: the flags encode one lifecycle state: approved implies submitted and
\* a milestone count in 1..N; an active slashing vote implies approved and a
\* count below N; a proposal that is not submitted, or is submitted and not
\* approved, has milestone count 0.
C24_FlagsEncodeOneState ==
  /\ isApproved => (isSubmitted /\ milestoneProgress >= 1 /\ milestoneProgress <= MilestoneCount)
  /\ isSlashingVoteActive => (isApproved /\ milestoneProgress < MilestoneCount)
  /\ (~isSubmitted \/ (isSubmitted /\ ~isApproved)) => (milestoneProgress = 0)

\* C25: while the proposal awaits its initial vote, is approved or is in a
\* slashing vote, the eligibility rules hold against the current reputation:
\* reputation >= 10 and 100 <= requested <= cap(reputation).
C25_EligibleWhileActive ==
  (Status \in {"Submitted", "Approved", "SlashingVote"}) =>
    /\ dMetric >= 10
    /\ grantRequested >= 100
    /\ grantRequested <= maxCap

\* C26: every approval by the initial vote follows its own successful
\* submission: the proposal becomes approved only when the last event before
\* the vote was the submission.
C26_ApprovalFollowsSubmit ==
  [][ (~isApproved /\ isApproved') => (lastEvent = "Proposal Submitted") ]_vars

\* C15: the milestone count stays within 0..N, and a transition leaves it,
\* adds exactly 1 to it, or resets it to 0.
C15_CountBounds ==
  [][ /\ milestoneProgress' \in 0..MilestoneCount
      /\ \/ milestoneProgress' = milestoneProgress
         \/ milestoneProgress' = milestoneProgress + 1
         \/ milestoneProgress' = 0
    ]_vars
====
